---------------------------- MODULE Spec2Model ----------------------------
(***************************************************************************)
(* The streaming conversation engine of the chat client:                   *)
(* frontend/src/components/chat/chat-interface.tsx (ChatInterface) with    *)
(* its callers in chat-input.tsx (ChatInput) and the conversation sidebar. *)
(*                                                                         *)
(* React state is modelled by one variable per useState cell.  A handler   *)
(* runs to its first await as one step; every continuation after an await  *)
(* is a step of its own.  A handler is a closure of the render it was      *)
(* created in: the values it read from state cells when it was invoked     *)
(* (conversationId, streamingMessage) are kept in the record of the        *)
(* invocation and are what its continuations and callbacks see later.      *)
(* Functional updates (setX(prev => ...)) read the current cell.           *)
(*                                                                         *)
(* Text is a sequence of tokens: "_" is one whitespace character, "error"  *)
(* the substring looked for by handleRetry, "a" any other text.            *)
(***************************************************************************)
EXTENDS Integers, Sequences, FiniteSets, TLC

\* ---------------------------------------------------------------- bounds
MaxSends  == 2      \* accepted invocations of handleSendMessage
MaxEvents == 3      \* events the transport delivers, all streams together
MaxFewEvents == 1   \* the same, where the payload of the events is not what is looked at
MaxLoads  == 1      \* conversation switches
MaxClock  == 1      \* readings of Date.now() beyond the first
MaxDeletes == 1     \* confirmed deletions of a conversation
MaxPages  == 2      \* the page counter of the sidebar
MaxSwitches == 2    \* selections, where loads overlap
MaxContentLen == 52 \* characters of a submitted content
MaxListLen == 3     \* conversations of a list response
MaxGroupLen == 4    \* conversations of a list that is grouped
MaxHour   == 25     \* hours after midnight at which the list is grouped

\* ------------------------------------------------------ program constants
PageSize  == 50     \* getConversations(userId, 50)
TitleLimit == 50    \* content.length > 50
TitleKeep  == 47    \* content.substring(0, 47)
HoursPerDay == 24   \* now.getTime() - 24 * 60 * 60 * 1000
DaysPerWeek == 7    \* now.getTime() - 7 * 24 * 60 * 60 * 1000

\* ------------------------------------------------------------ value sets
Undefined == "undefined"
Null      == "null"
ConvIds   == {"A", "B"}            \* conversations the backend already holds
NewIds    == << "N1", "N2", "N3", "N4" >>  \* ids createConversation hands out, in order
Contents  == { <<>>, <<"_">>, <<"a">>, <<"_", "a", "_">> }
Fragments == { <<"a">>, <<"error">> }
Citations == { "c1", "c2" }

\* ----------------------------------------------------------- text helpers
\* String.prototype.trim: strips the whitespace at both ends
RECURSIVE TrimLeft(_)
TrimLeft(s) == IF s # <<>> /\ Head(s) = "_" THEN TrimLeft(Tail(s)) ELSE s

RECURSIVE TrimRight(_)
TrimRight(s) ==
    IF s # <<>> /\ s[Len(s)] = "_" THEN TrimRight(SubSeq(s, 1, Len(s) - 1)) ELSE s

Trim(s) == TrimRight(TrimLeft(s))

\* lastMessage.content.includes('error')
IncludesError(s) == \E i \in 1..Len(s) : s[i] = "error"

Last(s)  == s[Len(s)]
Front(s) == SubSeq(s, 1, Len(s) - 1)
IsPrefix(s, t) == Len(s) <= Len(t) /\ SubSeq(t, 1, Len(s)) = s

VARIABLES
    messages,             \* useState<Message[]>([])
    isLoading,            \* useState(false)
    isStreaming,          \* useState(false)
    conversationId,       \* useState(initialConversationId)
    currentConversation,  \* useState<Conversation | null>(null): id shown in the header
    error,                \* useState<string | null>(null)
    streamingMessage,     \* useState<string>('')
    abortController,      \* abortControllerRef.current
    streamingEnabled,     \* process.env.NEXT_PUBLIC_ENABLE_STREAMING === 'true'
    letBlockScoped,       \* the build keeps the block scope of let (an ES2015+ target)
    deletes,              \* the invocations of the sidebar's handleDeleteConversation
    deleted,              \* the ids whose deleteConversation call has resolved (history)
    conversations,        \* sidebar: useState<Conversation[]>([])
    filteredConversations,\* sidebar: useState<Conversation[]>([])
    searchQuery,          \* sidebar: useState('')
    filters,              \* sidebar: useState<SearchFilters>({}): the dateRange, if any
    listLoading,          \* sidebar: isLoading, useState(false)
    hasMore,              \* sidebar: useState(true)
    page,                 \* sidebar: useState(1)
    listLoads,            \* sidebar: the getConversations call in flight, if any
    sends,                \* the accepted invocations of handleSendMessage, in order
    loads,                \* the invocations of loadConversation, in order
    now,                  \* Date.now()
    lastOp                \* the call of handleSendMessage made by the last step (history)

\* what the build fixes
build == << streamingEnabled, letBlockScoped >>

\* the state of ConversationSidebar
directory == << conversations, filteredConversations, searchQuery, filters,
               listLoading, hasMore, page, listLoads >>

sidebar == << deletes, deleted, directory >>

vars == << messages, isLoading, isStreaming, conversationId, currentConversation,
           error, streamingMessage, abortController, build, sidebar,
           sends, loads, now, lastOp >>


\* ------------------------------------------------------------- data model
\* A Message (types/chat.ts).  sources is an array reference: src = k > 0 is
\* the streamingSources array of invocation k, src = 0 a list of its own
\* (srcVal).  by and at are history: the invocation that appended the
\* message, and the number of events its stream had delivered before;
\* synthetic: the message is the errorResponse of the catch block.
UserMessageUntrimmed(content, k) ==
    [ id |-> now, content |-> content, role |-> "user",
      conversationId |-> conversationId, src |-> 0, srcVal |-> <<>>, by |-> k, at |-> 0,
      synthetic |-> FALSE ]

UserMessageCiting(content, k) ==
    [ id |-> now, content |-> Trim(content), role |-> "user",
      conversationId |-> conversationId, src |-> 0, srcVal |-> << "c1" >>, by |-> k,
      at |-> 0, synthetic |-> FALSE ]

UserMessage(content, k) ==
    [ id |-> now, content |-> Trim(content), role |-> "user",
      conversationId |-> conversationId, src |-> 0, srcVal |-> <<>>, by |-> k, at |-> 0,
      synthetic |-> FALSE ]

StreamedMessage(k) ==
    [ id |-> now, content |-> sends[k].buf, role |-> "assistant",
      conversationId |-> sends[k].convId, src |-> k, srcVal |-> <<>>, by |-> k,
      at |-> Len(sends[k].evlog), synthetic |-> FALSE ]

RegularMessage(k, text, srcs) ==
    [ id |-> now, content |-> text, role |-> "assistant",
      conversationId |-> sends[k].convId, src |-> 0, srcVal |-> srcs, by |-> k, at |-> 0,
      synthetic |-> FALSE ]

\* `Sorry, I encountered an error: ${errorMessage}. Please try again.`
ErrorText(errorMessage) == << "a", "error", errorMessage, "a" >>

\* errorResponse (lines 114-120), where currentConvId can be read
ErrorResponse(k, errorMessage) ==
    [ id |-> now + 1, content |-> ErrorText(errorMessage), role |-> "assistant",
      conversationId |-> sends[k].convId, src |-> 0, srcVal |-> <<>>, by |-> k, at |-> 0,
      synthetic |-> TRUE ]

\* the citation list a message shows: the array its sources field points to
SourcesIn(m, ss) == IF m.src # 0 THEN ss[m.src].sources ELSE m.srcVal
Sources(m) == SourcesIn(m, sends)

\* what getConversation may return as conversation.messages
StoredUser ==
    [ id |-> -1, content |-> <<"a">>, role |-> "user",
      conversationId |-> Undefined, src |-> 0, srcVal |-> <<>>, by |-> 0, at |-> 0,
      synthetic |-> FALSE ]
StoredAssistant ==
    [ id |-> -2, content |-> <<"a", "error">>, role |-> "assistant",
      conversationId |-> Undefined, src |-> 0, srcVal |-> <<"c1">>, by |-> 0, at |-> 0,
      synthetic |-> FALSE ]
StoredTranscripts == { <<>>, << StoredUser, StoredAssistant >> }

Ellipsis == << ".", ".", "." >>

TitleKeepsMore(content) ==
    IF Len(content) > TitleLimit
    THEN SubSeq(content, 1, TitleKeep + 1) \o Ellipsis
    ELSE content

\* content.length > 50 ? content.substring(0, 47) + '...' : content
Title(content) ==
    IF Len(content) > TitleLimit
    THEN SubSeq(content, 1, TitleKeep) \o Ellipsis
    ELSE content

\* one accepted invocation of handleSendMessage
\*   content  the argument;  conv, buf  conversationId and streamingMessage
\*   of the render the handler belongs to;  convId  currentConvId;
\*   sources  streamingSources;  pc  the await it is suspended at
\* history: evlog the events delivered on its stream; stale the operations
\*   invoked while its stream or request was open without a terminal event;
\*   terminal: done, error or a failure was delivered;
\*   appended: the assistant messages it has appended
\*   title: the argument of createConversation, where it is called
NewSend(content, pc) ==
    [ content |-> content, conv |-> conversationId, buf |-> streamingMessage,
      convId |-> conversationId, sources |-> <<>>, pc |-> pc,
      evlog |-> <<>>, stale |-> {}, terminal |-> FALSE, appended |-> 0,
      title |-> IF pc = "create" THEN Title(content) ELSE <<>> ]

\* one invocation of loadConversation, suspended at await getConversation(id)
\* (pc "pending"), then "finished" or "failed"
\* history: origin, what set the conversationId the effect reacted to
NewLoad(id, origin) == [ id |-> id, pc |-> "pending", origin |-> origin ]

\* the initialConversationId prop
InitialIds == { Undefined, "A" }

\* history: the last step was handleSendMessage(c) entered from name and
\* accepted or not; NoOp after a step of any other operation
Op(name, c, accepted) == [ op |-> name, c |-> c, accepted |-> accepted ]
NoOp == Op("none", <<>>, FALSE)

\* history: every invocation whose stream or request is open and still
\* without a terminal event records the operation invoked (cause); one
\* awaiting createConversation records a newConversation() as "abandoned",
\* for as long as it awaits
MarkStale(ss, cause) ==
    [ k \in DOMAIN ss |->
        IF ss[k].pc \in { "stream", "regular" } /\ ~ss[k].terminal
        THEN [ ss[k] EXCEPT !.stale = @ \cup { cause } ]
        ELSE IF ss[k].pc = "create" /\ cause = "new"
             THEN [ ss[k] EXCEPT !.stale = @ \cup { "abandoned" } ]
             ELSE ss[k] ]

InitCells ==
    /\ messages = <<>>
    /\ isLoading = FALSE
    /\ isStreaming = FALSE
    /\ conversationId \in InitialIds
    /\ currentConversation = Null
    /\ error = Null
    /\ streamingMessage = <<>>
    /\ abortController = Null
    /\ streamingEnabled \in BOOLEAN
    /\ letBlockScoped \in BOOLEAN
    /\ deletes = <<>>
    /\ deleted = {}
    /\ sends = <<>>
       \* the mount effect: loadConversation(initialConversationId)
    /\ loads = IF conversationId = Undefined THEN <<>>
               ELSE << NewLoad(conversationId, "mount") >>
    /\ lastOp = NoOp

\* the chat interface after its first render, the clock at its first reading
InitChat == InitCells /\ now = 0

\* ConversationSidebar after its first render: the mount effect has called
\* loadConversations(true), which is at await getConversations(userId, 50)
InitSidebar ==
    /\ conversations = <<>>
    /\ filteredConversations = <<>>
    /\ searchQuery = <<>>
    /\ filters = <<>>
    /\ listLoading = TRUE
    /\ hasMore = TRUE
    /\ page = 1
    /\ listLoads = << [ reset |-> TRUE, currentPage |-> 1 ] >>

Init == InitChat /\ InitSidebar


\* ------------------------------------------------------ handleSendMessage
RejectedUnlessStreaming(content) == Trim(content) = <<>> \/ isLoading

\* the early return of line 70
Rejected(content) == Trim(content) = <<>> \/ isLoading \/ isStreaming

\* handleStreamingResponse up to createStreamingChat(...), or
\* handleRegularResponse up to sendMessage(...): the flags they set and the
\* await the invocation is left at
ResponsePc == IF streamingEnabled THEN "stream" ELSE "regular"

StartResponse ==
    IF streamingEnabled
    THEN isStreaming' = TRUE /\ streamingMessage' = <<>>
    ELSE UNCHANGED << isStreaming, streamingMessage >>

\* handleSendMessage(content) called when the transcript cell holds base
\* (handleRetry queues its removal first), up to its first await
HandleSendMessage(content, base, name) ==
    IF Rejected(content)
    THEN /\ messages' = base
         /\ lastOp' = Op(name, content, FALSE)
         /\ UNCHANGED << isLoading, isStreaming, conversationId, currentConversation,
                         error, streamingMessage, abortController, sends, loads >>
    ELSE /\ Len(sends) < MaxSends
         /\ LET k == Len(sends) + 1 IN
            \* abortControllerRef.current is never assigned: no abort() happens
            /\ abortController' = abortController
            /\ error' = Null
            /\ isLoading' = TRUE
            /\ messages' = Append(base, UserMessage(content, k))
            /\ IF conversationId = Undefined
               THEN \* await createConversation(title)
                    /\ sends' = Append(MarkStale(sends, "send"), NewSend(content, "create"))
                    /\ UNCHANGED << isStreaming, streamingMessage >>
               ELSE /\ sends' = Append(MarkStale(sends, "send"), NewSend(content, ResponsePc))
                    /\ StartResponse
            /\ lastOp' = Op(name, content, TRUE)
            /\ UNCHANGED << conversationId, currentConversation, loads >>

\* the component's onSendMessage prop called with any content
Send(content) ==
    /\ HandleSendMessage(content, messages, "send")
    /\ UNCHANGED << build, sidebar, now >>

\* ChatInput.handleSubmit: isLoading = isLoading || isStreaming, disabled = !!error
HandleSubmit(text) ==
    /\ Trim(text) # <<>> /\ ~(isLoading \/ isStreaming) /\ error = Null
    /\ HandleSendMessage(Trim(text), messages, "submit")
    /\ UNCHANGED << build, sidebar, now >>

\* the catch and finally blocks of handleSendMessage.  currentConvId is
\* declared with let inside the try block.  Where the build keeps the block
\* scope of let, building errorResponse (line 119) raises a ReferenceError
\* after setError and setMessages of line 121 is never reached; where the
\* build turns let into a function-scoped var, errorResponse is appended.
\* finally runs in both.
CatchFinally(k, errorMessage) ==
    /\ error' = errorMessage
    /\ messages' = IF letBlockScoped THEN messages
                   ELSE Append(messages, ErrorResponse(k, errorMessage))
    /\ isLoading' = FALSE
    /\ sends' = [ sends EXCEPT ![k].pc = "finished", ![k].terminal = TRUE,
                               ![k].stale = @ \ { "abandoned" } ]

\* error instanceof ApiError ? error.message : 'Failed to send message'
SendError(isApiError) ==
    IF isApiError THEN "ApiError.message" ELSE "Failed to send message"

\* the network calls of lib/api reject with an ApiError
SendErrors == { SendError(TRUE) }


\* -------------------------------------------------------- loadConversation
\* the effect of lines 44-49 for a conversationId that became id:
\* loadConversation(id) up to await getConversation(id)
LoadConversation(id, origin) ==
    /\ error' = Null
    /\ loads' = Append(loads, NewLoad(id, origin))

\* getConversation(id) resolves with conversation.messages = stored
\* (present = FALSE: the field is absent)
LoadResolve(l, present, stored) ==
    /\ loads[l].pc = "pending"
    /\ currentConversation' = loads[l].id
    /\ messages' = IF present THEN stored ELSE <<>>
    /\ loads' = [ loads EXCEPT ![l].pc = "finished" ]
    /\ lastOp' = NoOp
    /\ UNCHANGED << isLoading, isStreaming, conversationId, error, streamingMessage,
                    abortController, build, sidebar, sends, now >>

LoadRejectKeeps(l, msg) ==
    /\ loads[l].pc = "pending"
    /\ error' = msg
    /\ messages' = messages
    /\ loads' = [ loads EXCEPT ![l].pc = "failed" ]
    /\ lastOp' = NoOp
    /\ UNCHANGED << isLoading, isStreaming, conversationId, currentConversation,
                    streamingMessage, abortController, build, sidebar, sends, now >>

\* getConversation(id) rejects
LoadReject(l, msg) ==
    /\ loads[l].pc = "pending"
    /\ error' = msg
    /\ messages' = <<>>
    /\ loads' = [ loads EXCEPT ![l].pc = "failed" ]
    /\ lastOp' = NoOp
    /\ UNCHANGED << isLoading, isStreaming, conversationId, currentConversation,
                    streamingMessage, abortController, build, sidebar, sends, now >>

\* error instanceof ApiError ? error.message : 'Failed to load conversation'
LoadError(isApiError) ==
    IF isApiError THEN "ApiError.message" ELSE "Failed to load conversation"

LoadErrors == { LoadError(TRUE) }

\* ------------------------------------- handleSendMessage after createConversation
\* createConversation resolves with conversation_id = id: lines 98-107, and
\* the effect the new conversationId triggers
CreateResolve(k) ==
    /\ sends[k].pc = "create"
    /\ conversationId' = NewIds[k]
    /\ LoadConversation(NewIds[k], "create")
    /\ sends' = [ sends EXCEPT ![k].convId = NewIds[k], ![k].pc = ResponsePc,
                               ![k].stale = @ \ { "abandoned" } ]
    /\ StartResponse
    /\ lastOp' = NoOp
    /\ UNCHANGED << messages, isLoading, currentConversation, abortController,
                    build, sidebar, now >>

\* createConversation rejects
CreateReject(k, msg) ==
    /\ sends[k].pc = "create"
    /\ CatchFinally(k, msg)
    /\ lastOp' = NoOp
    /\ UNCHANGED << isStreaming, conversationId, currentConversation,
                    streamingMessage, abortController, build, sidebar, loads, now >>


\* ------------------------------------------------- handleStreamingResponse
\* handleStreamError(error), the onError callback
HandleStreamError(msg) ==
    /\ error' = msg
    /\ isStreaming' = FALSE
    /\ streamingMessage' = <<>>

\* history: event ev was delivered on the stream of invocation k
Logged(k, ev) == [ sends EXCEPT ![k].evlog = Append(@, ev) ]

Event(type, c, cit) == [ type |-> type, content |-> c, source |-> cit ]

\* case 'message'
OnMessage(k, ev) ==
    /\ streamingMessage' =
           IF ev.content # <<>> THEN streamingMessage \o ev.content ELSE streamingMessage
    /\ sends' = Logged(k, ev)
    /\ UNCHANGED << messages, isLoading, isStreaming, error >>

\* streamingSources.push(response.source)
PushSource(srcs, cit) == Append(srcs, cit)

\* case 'source'
OnSource(k, ev) ==
    /\ sends' = [ Logged(k, ev) EXCEPT ![k].sources =
                      IF ev.source # Undefined THEN PushSource(@, ev.source) ELSE @ ]
    /\ UNCHANGED << messages, isLoading, isStreaming, error, streamingMessage >>

\* case 'done': streamingMessage here is the cell's value in the render that
\* created the handler (sends[k].buf), not the text accumulated since
OnDone(k, ev) ==
    /\ messages' = Append(messages, StreamedMessage(k))
    /\ streamingMessage' = <<>>
    /\ isStreaming' = FALSE
    /\ sends' = [ Logged(k, ev) EXCEPT ![k].terminal = TRUE, ![k].appended = @ + 1 ]
    /\ UNCHANGED << isLoading, error >>

\* case 'error': throw new Error(response.error || 'Streaming error occurred').
\* Where the exception of the callback goes is the transport's choice:
\* it rejects the promise handleSendMessage awaits (route "reject": catch and
\* finally run), or it is handed to onError and the promise resolves (route
\* "onError": handleStreamError and finally run).
ThrowRoutes == { "reject", "onError" }

OnError(k, ev, route) ==
    /\ IF route = "reject"
       THEN /\ error' = SendError(FALSE)
            /\ messages' = IF letBlockScoped THEN messages
                           ELSE Append(messages, ErrorResponse(k, SendError(FALSE)))
            /\ UNCHANGED << isStreaming, streamingMessage >>
       ELSE /\ HandleStreamError("Streaming error occurred")
            /\ UNCHANGED messages
    /\ isLoading' = FALSE
    /\ sends' = [ Logged(k, ev) EXCEPT ![k].pc = "finished", ![k].terminal = TRUE ]

\* history: the number of events delivered so far
RECURSIVE Delivered(_)
Delivered(ss) == IF ss = <<>> THEN 0 ELSE Len(Head(ss).evlog) + Delivered(Tail(ss))

\* the transport delivers one event to handleStreamMessage
StreamEvent(k, ev, route) ==
    /\ sends[k].pc = "stream"
    /\ CASE ev.type = "message" -> OnMessage(k, ev)
         [] ev.type = "source"  -> OnSource(k, ev)
         [] ev.type = "done"    -> OnDone(k, ev)
         [] ev.type = "error"   -> OnError(k, ev, route)
    /\ lastOp' = NoOp
    /\ UNCHANGED << conversationId, currentConversation, abortController,
                    build, sidebar, loads, now >>

\* the events of the wire contract
Events ==
    { Event("message", f, Undefined) : f \in Fragments } \cup
    { Event("source", <<>>, c) : c \in Citations } \cup
    { Event("done", <<>>, Undefined), Event("error", <<>>, Undefined) }

\* the stream ends: the promise of createStreamingChat resolves, finally runs
StreamClose(k) ==
    /\ sends[k].pc = "stream"
    /\ isLoading' = FALSE
    /\ sends' = [ sends EXCEPT ![k].pc = "finished" ]
    /\ lastOp' = NoOp
    /\ UNCHANGED << messages, isStreaming, conversationId, currentConversation, error,
                    streamingMessage, abortController, build, sidebar, loads, now >>

\* a transport-level failure reported to onError; the promise then resolves
StreamFailure(k) ==
    /\ sends[k].pc = "stream"
    /\ HandleStreamError("connection failed")
    /\ isLoading' = FALSE
    /\ sends' = [ sends EXCEPT ![k].pc = "finished", ![k].terminal = TRUE ]
    /\ lastOp' = NoOp
    /\ UNCHANGED << messages, conversationId, currentConversation,
                    abortController, build, sidebar, loads, now >>

\* createStreamingChat rejects: catch and finally of handleSendMessage
StreamReject(k, msg) ==
    /\ sends[k].pc = "stream"
    /\ CatchFinally(k, msg)
    /\ lastOp' = NoOp
    /\ UNCHANGED << isStreaming, conversationId, currentConversation,
                    streamingMessage, abortController, build, sidebar, loads, now >>

\* --------------------------------------------------- handleRegularResponse
\* sendMessage resolves with response and sources; finally runs
RegularResolve(k, text, srcs) ==
    /\ sends[k].pc = "regular"
    /\ messages' = Append(messages, RegularMessage(k, text, srcs))
    /\ isLoading' = FALSE
    /\ sends' = [ sends EXCEPT ![k].pc = "finished", ![k].terminal = TRUE,
                               ![k].appended = @ + 1 ]
    /\ lastOp' = NoOp
    /\ UNCHANGED << isStreaming, conversationId, currentConversation, error,
                    streamingMessage, abortController, build, sidebar, loads, now >>

\* sendMessage rejects
RegularReject(k, msg) ==
    /\ sends[k].pc = "regular"
    /\ CatchFinally(k, msg)
    /\ lastOp' = NoOp
    /\ UNCHANGED << isStreaming, conversationId, currentConversation,
                    streamingMessage, abortController, build, sidebar, loads, now >>

\* what sendMessage may answer
RegularSources == { <<>>, <<"c1", "c2">> }


\* ------------------------------------------------------ conversation control
\* handleNewConversation: abortControllerRef.current is null, nothing is
\* aborted; the invocations in flight keep their callbacks
NewConversation ==
    /\ abortController' = abortController
    /\ conversationId' = Undefined
    /\ currentConversation' = Null
    /\ messages' = <<>>
    /\ error' = Null
    /\ isLoading' = FALSE
    /\ isStreaming' = FALSE
    /\ streamingMessage' = <<>>
    /\ sends' = MarkStale(sends, "new")
    /\ UNCHANGED << build, loads, now >>

\* the sidebar's "new chat" buttons
HandleNewConversation ==
    /\ NewConversation
    /\ lastOp' = NoOp
    /\ UNCHANGED sidebar

\* history: the loadConversation calls made for a selection
Selections == { l \in DOMAIN loads : loads[l].origin = "select" }

\* handleSelectConversation(id), and the effect the new conversationId triggers
HandleSelectConversation(id) ==
    IF id = conversationId
    THEN /\ lastOp' = NoOp
         /\ UNCHANGED << messages, isLoading, isStreaming, conversationId,
                         currentConversation, error, streamingMessage, abortController,
                         build, sidebar, sends, loads, now >>
    ELSE /\ conversationId' = id
         /\ LoadConversation(id, "select")
         /\ sends' = MarkStale(sends, "select")
         /\ lastOp' = NoOp
         /\ UNCHANGED << messages, isLoading, isStreaming, currentConversation,
                         streamingMessage, abortController, build, sidebar, now >>

\* a selection, while fewer than max selections have started a load
SelectWithin(id, max) ==
    /\ id = conversationId \/ Cardinality(Selections) < max
    /\ HandleSelectConversation(id)

RemoveNothing(prev) == prev

\* ------------------------------------------------------ ConversationSidebar
\* A Conversation of the list (types/chat.ts).  Times are hours; an absent
\* lastMessage is the empty text (both are falsy and match no query).
Conv(id, title, lastMessage, updatedAt, messageCount) ==
    [ id |-> id, title |-> title, lastMessage |-> lastMessage,
      updatedAt |-> updatedAt, messageCount |-> messageCount ]

\* String.prototype.toLowerCase on the letters of the model
ToLowerCase(s) ==
    [ i \in DOMAIN s |-> CASE s[i] = "A" -> "a" [] s[i] = "B" -> "b" [] OTHER -> s[i] ]

\* String.prototype.includes
Includes(s, q) ==
    \E i \in 0..(Len(s) - Len(q)) : SubSeq(s, i + 1, i + Len(q)) = q

\* the predicate of lines 66-69; query is searchQuery.toLowerCase()
MatchesQuery(conv, query) ==
    \/ Includes(ToLowerCase(conv.title), query)
    \/ Includes(ToLowerCase(conv.lastMessage), query)

\* the predicate of lines 73-76
InDateRange(conv, dateRange) ==
    conv.updatedAt >= dateRange.start /\ conv.updatedAt <= dateRange.end

\* Array.prototype.sort with (a, b) => b.updatedAt.getTime() -
\* a.updatedAt.getTime(): stable, most recent first.  Place(list)[i] is the
\* place the sort gives to list[i]: after the more recent ones and after the
\* ones as recent that come before it
Place(list) ==
    [ i \in DOMAIN list |->
        1 + Cardinality({ j \in DOMAIN list :
                            \/ list[j].updatedAt > list[i].updatedAt
                            \/ list[j].updatedAt = list[i].updatedAt /\ j < i }) ]

NotSorted(list) == list

SortByRecent(list) ==
    LET place == Place(list)
    IN  [ k \in DOMAIN list |-> list[CHOOSE i \in DOMAIN list : place[i] = k] ]

\* the effect of lines 60-83: what it passes to setFilteredConversations
Filter(convs, query, fs) ==
    LET byQuery == IF Trim(query) # <<>>
                   THEN SelectSeq(convs, LAMBDA c : MatchesQuery(c, ToLowerCase(query)))
                   ELSE convs
        byDate  == IF fs # <<>>
                   THEN SelectSeq(byQuery, LAMBDA c : InDateRange(c, fs[1]))
                   ELSE byQuery
    IN  SortByRecent(byDate)

\* loadConversations(reset) up to await getConversations(userId, 50)
LoadConversations(reset) ==
    IF listLoading
    THEN UNCHANGED << listLoading, listLoads >>
    ELSE /\ listLoading' = TRUE
         /\ listLoads' = << [ reset |-> reset,
                              currentPage |-> IF reset THEN 1 ELSE page ] >>

\* everything but the sidebar's list
chat == << messages, isLoading, isStreaming, conversationId, currentConversation,
           error, streamingMessage, abortController, build, deletes, deleted,
           sends, loads, now >>

\* getConversations resolves with response.conversations = response
ListResolve(response) ==
    /\ listLoads # <<>>
    /\ conversations' = IF listLoads[1].reset THEN response
                        ELSE conversations \o response
    /\ page' = IF listLoads[1].reset THEN 1 ELSE listLoads[1].currentPage + 1
    /\ hasMore' = (Len(response) = PageSize)
    /\ listLoading' = FALSE
    /\ listLoads' = <<>>
    /\ filteredConversations' = Filter(conversations', searchQuery, filters)
    /\ lastOp' = NoOp
    /\ UNCHANGED << chat, searchQuery, filters >>

\* getConversations rejects
ListReject ==
    /\ listLoads # <<>>
    /\ listLoading' = FALSE
    /\ listLoads' = <<>>
    /\ lastOp' = NoOp
    /\ UNCHANGED << chat, conversations, filteredConversations, searchQuery, filters,
                    hasMore, page >>

\* handleLoadMore, the button rendered while hasMore
HandleLoadMore ==
    /\ hasMore
    /\ page < MaxPages
    /\ IF ~listLoading THEN LoadConversations(FALSE)
       ELSE UNCHANGED << listLoading, listLoads >>
    /\ lastOp' = NoOp
    /\ UNCHANGED << chat, conversations, filteredConversations, searchQuery, filters,
                    hasMore, page >>

\* handleRefresh
HandleRefresh ==
    /\ LoadConversations(TRUE)
    /\ lastOp' = NoOp
    /\ UNCHANGED << chat, conversations, filteredConversations, searchQuery, filters,
                    hasMore, page >>

\* the search field: setSearchQuery(e.target.value), and the filter effect
SetSearchQuery(q) ==
    /\ searchQuery' = q
    /\ filteredConversations' = Filter(conversations, q, filters)
    /\ lastOp' = NoOp
    /\ UNCHANGED << chat, conversations, filters, listLoading, hasMore, page, listLoads >>

\* the sidebar once the list request of the mount effect has resolved with
\* response
Listed(response) ==
    /\ conversations = response
    /\ filteredConversations = Filter(response, <<>>, <<>>)
    /\ searchQuery = <<>>
    /\ filters = <<>>
    /\ listLoading = FALSE
    /\ hasMore = (Len(response) = PageSize)
    /\ page = 1
    /\ listLoads = <<>>

\* the list of the conversations the backend holds, each with the count and
\* the last message of its stored transcript
Listing ==
    << Conv("B", << "b" >>, StoredAssistant.content, 2, 2),
       Conv("A", << "a" >>, StoredAssistant.content, 1, 2) >>

\* the ids of the conversations shown in the sidebar
ListedIds == { filteredConversations[i].id : i \in DOMAIN filteredConversations }

\* a click on a conversation of the sidebar's list
SelectFromSidebar(id) ==
    /\ id \in ListedIds
    /\ SelectWithin(id, MaxLoads)

\* ------------------------------------------------- handleDeleteConversation
\* one invocation of handleDeleteConversation, suspended at
\* await deleteConversation(id); current is the currentConversationId prop
\* of the render the handler belongs to
NewDelete(id) == [ id |-> id, current |-> conversationId, pc |-> "pending" ]

\* handleDeleteConversation(id) up to its await; accepted is the answer to
\* confirm(...)
HandleDeleteConversation(id, accepted) ==
    /\ id \in ListedIds
    /\ IF accepted
       THEN /\ Len(deletes) < MaxDeletes
            /\ deletes' = Append(deletes, NewDelete(id))
       ELSE UNCHANGED deletes
    /\ lastOp' = NoOp
    /\ UNCHANGED << messages, isLoading, isStreaming, conversationId,
                    currentConversation, error, streamingMessage, abortController,
                    build, deleted, directory, sends, loads, now >>

\* deleteConversation(id) resolves: onNewConversation() when the deleted
\* conversation is the one the handler took for the current one
DeleteResolve(d) ==
    /\ deletes[d].pc = "pending"
    /\ deletes' = [ deletes EXCEPT ![d].pc = "finished" ]
    /\ deleted' = deleted \cup { deletes[d].id }
    /\ conversations' = SelectSeq(conversations, LAMBDA c : c.id # deletes[d].id)
    /\ filteredConversations' = Filter(conversations', searchQuery, filters)
    /\ UNCHANGED << searchQuery, filters, listLoading, hasMore, page, listLoads >>
    /\ lastOp' = NoOp
    /\ IF deletes[d].current = deletes[d].id
       THEN NewConversation
       ELSE UNCHANGED << messages, isLoading, isStreaming, conversationId,
                         currentConversation, error, streamingMessage,
                         abortController, build, sends, loads, now >>

\* deleteConversation(id) rejects: the sidebar shows its own error
DeleteReject(d) ==
    /\ deletes[d].pc = "pending"
    /\ deletes' = [ deletes EXCEPT ![d].pc = "failed" ]
    /\ lastOp' = NoOp
    /\ UNCHANGED << messages, isLoading, isStreaming, conversationId,
                    currentConversation, error, streamingMessage, abortController,
                    build, deleted, directory, sends, loads, now >>

\* the updater of lines 225-231
RemoveTrailingError(prev) ==
    IF prev # <<>> /\ Last(prev).role = "assistant" /\ IncludesError(Last(prev).content)
    THEN Front(prev)
    ELSE prev

UserMessages == SelectSeq(messages, LAMBDA m : m.role = "user")

\* handleRetry, the button of the error banner (rendered while error is set)
HandleRetry ==
    /\ error # Null
    /\ IF Len(messages) > 0 /\ UserMessages # <<>>
       THEN HandleSendMessage(Last(UserMessages).content,
                              RemoveTrailingError(messages), "retry")
       ELSE /\ lastOp' = Op("retry", <<>>, FALSE)
            /\ UNCHANGED << messages, isLoading, isStreaming, conversationId,
                            currentConversation, error, streamingMessage,
                            abortController, sends, loads >>
    /\ UNCHANGED << build, sidebar, now >>

\* time passes between two readings of Date.now()
Tick ==
    /\ now < MaxClock
    /\ now' = now + 1
    /\ lastOp' = NoOp
    /\ UNCHANGED << messages, isLoading, isStreaming, conversationId, currentConversation,
                    error, streamingMessage, abortController, build, sidebar,
                    sends, loads >>

\* ---------------------------------------------------------- specification
Next ==
    \/ \E c \in Contents : Send(c)
    \/ \E c \in Contents : HandleSubmit(c)
    \/ HandleRetry
    \/ HandleNewConversation
    \/ \E id \in ConvIds : SelectWithin(id, MaxLoads)
    \/ \E id \in ConvIds : SelectFromSidebar(id)
    \/ \E id \in ConvIds, accepted \in BOOLEAN : HandleDeleteConversation(id, accepted)
    \/ \E d \in DOMAIN deletes : DeleteResolve(d)
    \/ \E d \in DOMAIN deletes : DeleteReject(d)
    \/ ListResolve(Listing)
    \/ ListReject
    \/ HandleLoadMore
    \/ HandleRefresh
    \/ \E q \in Contents : SetSearchQuery(q)
    \/ \E l \in DOMAIN loads : LoadResolve(l, FALSE, <<>>)
    \/ \E l \in DOMAIN loads, st \in StoredTranscripts : LoadResolve(l, TRUE, st)
    \/ \E l \in DOMAIN loads, msg \in LoadErrors : LoadReject(l, msg)
    \/ \E k \in DOMAIN sends : CreateResolve(k)
    \/ \E k \in DOMAIN sends, msg \in SendErrors : CreateReject(k, msg)
    \/ /\ Delivered(sends) < MaxEvents
       /\ \E k \in DOMAIN sends, ev \in Events, r \in ThrowRoutes : StreamEvent(k, ev, r)
    \/ \E k \in DOMAIN sends : StreamClose(k)
    \/ \E k \in DOMAIN sends : StreamFailure(k)
    \/ \E k \in DOMAIN sends, msg \in SendErrors : StreamReject(k, msg)
    \/ \E k \in DOMAIN sends, f \in Fragments, srcs \in RegularSources :
           RegularResolve(k, f, srcs)
    \/ \E k \in DOMAIN sends, msg \in SendErrors : RegularReject(k, msg)
    \/ Tick

Spec == Init /\ [][Next]_vars


\* The streaming path alone: sends, their conversations and their streams,
\* with every event of the wire contract
InitStream == Init /\ streamingEnabled

NextStream ==
    \/ \E c \in Contents : HandleSubmit(c)
    \/ \E l \in DOMAIN loads : LoadResolve(l, FALSE, <<>>)
    \/ \E l \in DOMAIN loads, st \in StoredTranscripts : LoadResolve(l, TRUE, st)
    \/ \E l \in DOMAIN loads, msg \in LoadErrors : LoadReject(l, msg)
    \/ \E k \in DOMAIN sends : CreateResolve(k)
    \/ \E k \in DOMAIN sends, msg \in SendErrors : CreateReject(k, msg)
    \/ /\ Delivered(sends) < MaxEvents
       /\ \E k \in DOMAIN sends, ev \in Events, r \in ThrowRoutes : StreamEvent(k, ev, r)
    \/ \E k \in DOMAIN sends : StreamClose(k)
    \/ \E k \in DOMAIN sends : StreamFailure(k)
    \/ \E k \in DOMAIN sends, msg \in SendErrors : StreamReject(k, msg)

SpecStream == InitStream /\ [][NextStream]_vars

\* the transport ends every stream it opened: the promise of
\* createStreamingChat is settled at last
SpecStreamFair ==
    SpecStream /\ WF_vars(\E k \in DOMAIN sends : StreamClose(k))


\* one event of each type
CoreEvents ==
    { Event("message", <<"a">>, Undefined), Event("source", <<>>, "c1"),
      Event("done", <<>>, Undefined), Event("error", <<>>, Undefined) }

\* The send operation called in every state, with every content, by the
\* input field, by the retry button or directly
NextSend ==
    \/ \E c \in Contents : Send(c)
    \/ \E c \in Contents : HandleSubmit(c)
    \/ HandleRetry
    \/ \E l \in DOMAIN loads : LoadResolve(l, FALSE, <<>>)
    \/ \E l \in DOMAIN loads, st \in StoredTranscripts : LoadResolve(l, TRUE, st)
    \/ \E l \in DOMAIN loads, msg \in LoadErrors : LoadReject(l, msg)
    \/ \E k \in DOMAIN sends : CreateResolve(k)
    \/ \E k \in DOMAIN sends, msg \in SendErrors : CreateReject(k, msg)
    \/ /\ Delivered(sends) < MaxFewEvents
       /\ \E k \in DOMAIN sends, ev \in CoreEvents, r \in ThrowRoutes :
              StreamEvent(k, ev, r)
    \/ \E k \in DOMAIN sends : StreamClose(k)
    \/ \E k \in DOMAIN sends : StreamFailure(k)
    \/ \E k \in DOMAIN sends, msg \in SendErrors : StreamReject(k, msg)
    \/ \E k \in DOMAIN sends, srcs \in RegularSources : RegularResolve(k, <<"a">>, srcs)
    \/ \E k \in DOMAIN sends, msg \in SendErrors : RegularReject(k, msg)

SpecSend == Init /\ [][NextSend]_vars

\* Sends from the input field and from the retry button of the error
\* banner, with every outcome of their network calls
NextRetry ==
    \/ \E c \in Contents : HandleSubmit(c)
    \/ HandleRetry
    \/ \E l \in DOMAIN loads : LoadResolve(l, FALSE, <<>>)
    \/ \E l \in DOMAIN loads, st \in StoredTranscripts : LoadResolve(l, TRUE, st)
    \/ \E l \in DOMAIN loads, msg \in LoadErrors : LoadReject(l, msg)
    \/ \E k \in DOMAIN sends : CreateResolve(k)
    \/ \E k \in DOMAIN sends, msg \in SendErrors : CreateReject(k, msg)
    \/ /\ Delivered(sends) < MaxFewEvents
       /\ \E k \in DOMAIN sends, ev \in CoreEvents, r \in ThrowRoutes :
              StreamEvent(k, ev, r)
    \/ \E k \in DOMAIN sends : StreamClose(k)
    \/ \E k \in DOMAIN sends : StreamFailure(k)
    \/ \E k \in DOMAIN sends, msg \in SendErrors : StreamReject(k, msg)
    \/ \E k \in DOMAIN sends, srcs \in RegularSources : RegularResolve(k, <<"a">>, srcs)
    \/ \E k \in DOMAIN sends, msg \in SendErrors : RegularReject(k, msg)

SpecRetry == Init /\ [][NextRetry]_vars

\* The sidebar: conversations are selected and deleted while sends and
\* loads are on their way
NextDirectory ==
    \/ \E c \in Contents : HandleSubmit(c)
    \/ \E id \in ConvIds : SelectFromSidebar(id)
    \/ \E id \in ConvIds, accepted \in BOOLEAN : HandleDeleteConversation(id, accepted)
    \/ \E d \in DOMAIN deletes : DeleteResolve(d)
    \/ \E d \in DOMAIN deletes : DeleteReject(d)
    \/ \E l \in DOMAIN loads : LoadResolve(l, FALSE, <<>>)
    \/ \E l \in DOMAIN loads, st \in StoredTranscripts : LoadResolve(l, TRUE, st)
    \/ \E l \in DOMAIN loads, msg \in LoadErrors : LoadReject(l, msg)
    \/ \E k \in DOMAIN sends : CreateResolve(k)
    \/ \E k \in DOMAIN sends, msg \in SendErrors : CreateReject(k, msg)
    \/ /\ Delivered(sends) < MaxFewEvents
       /\ \E k \in DOMAIN sends, ev \in CoreEvents, r \in ThrowRoutes :
              StreamEvent(k, ev, r)
    \/ \E k \in DOMAIN sends : StreamClose(k)
    \/ \E k \in DOMAIN sends, srcs \in RegularSources : RegularResolve(k, <<"a">>, srcs)
    \/ \E k \in DOMAIN sends, msg \in SendErrors : RegularReject(k, msg)

\* built for a target that has let
InitDirectory == InitChat /\ letBlockScoped /\ Listed(Listing)

SpecDirectory == InitDirectory /\ [][NextDirectory]_vars

\* Conversations are opened and switched between sends, without streaming
InitSelect == InitChat /\ ~streamingEnabled /\ letBlockScoped /\ Listed(Listing)

NextSelect ==
    \/ \E c \in Contents : HandleSubmit(c)
    \/ \E id \in ConvIds : SelectFromSidebar(id)
    \/ \E l \in DOMAIN loads : LoadResolve(l, FALSE, <<>>)
    \/ \E l \in DOMAIN loads, st \in StoredTranscripts : LoadResolve(l, TRUE, st)
    \/ \E l \in DOMAIN loads, msg \in LoadErrors : LoadReject(l, msg)
    \/ \E k \in DOMAIN sends : CreateResolve(k)
    \/ \E k \in DOMAIN sends, msg \in SendErrors : CreateReject(k, msg)
    \/ \E k \in DOMAIN sends, srcs \in RegularSources : RegularResolve(k, <<"a">>, srcs)
    \/ \E k \in DOMAIN sends, msg \in SendErrors : RegularReject(k, msg)

SpecSelect == InitSelect /\ [][NextSelect]_vars

\* The user moves on while a response is on its way: new conversation,
\* conversation switch, next send
NextOverlap ==
    \/ \E c \in Contents : HandleSubmit(c)
    \/ HandleNewConversation
    \/ \E id \in ConvIds : SelectWithin(id, MaxLoads)
    \/ \E l \in DOMAIN loads : LoadResolve(l, FALSE, <<>>)
    \/ \E l \in DOMAIN loads, st \in StoredTranscripts : LoadResolve(l, TRUE, st)
    \/ \E l \in DOMAIN loads, msg \in LoadErrors : LoadReject(l, msg)
    \/ \E k \in DOMAIN sends : CreateResolve(k)
    \/ \E k \in DOMAIN sends, msg \in SendErrors : CreateReject(k, msg)
    \/ /\ Delivered(sends) < MaxFewEvents
       /\ \E k \in DOMAIN sends, ev \in CoreEvents, r \in ThrowRoutes :
              StreamEvent(k, ev, r)
    \/ \E k \in DOMAIN sends : StreamClose(k)
    \/ \E k \in DOMAIN sends, srcs \in RegularSources : RegularResolve(k, <<"a">>, srcs)
    \/ \E k \in DOMAIN sends, msg \in SendErrors : RegularReject(k, msg)

\* in a session that starts without a conversation, built for a target
\* that has let
InitOverlap == Init /\ conversationId = Undefined /\ letBlockScoped

SpecOverlap == InitOverlap /\ [][NextOverlap]_vars


\* ------------------------------------------------------------------ claims
\* the step delivers an event on the stream of invocation k
EventStep(k) ==
    /\ k \in DOMAIN sends /\ k \in DOMAIN sends'
    /\ Len(sends'[k].evlog) = Len(sends[k].evlog) + 1

\* the step delivers a done event on the stream of invocation k
DoneStep(k) == EventStep(k) /\ Last(sends'[k].evlog).type = "done"

\* the text of the message events of a log, concatenated in arrival order
RECURSIVE MessageText(_)
MessageText(log) ==
    IF log = <<>> THEN <<>>
    ELSE (IF Head(log).type = "message" THEN Head(log).content ELSE <<>>)
         \o MessageText(Tail(log))

\* the citations of the source events of a log, in arrival order
RECURSIVE SourceList(_)
SourceList(log) ==
    IF log = <<>> THEN <<>>
    ELSE (IF Head(log).type = "source" THEN << Head(log).source >> ELSE <<>>)
         \o SourceList(Tail(log))

\* C1: when a stream delivers done, the assistant message appended to the
\* transcript has as content the concatenation, in arrival order, of the
\* content of the message events delivered on that stream before
C1_ContentIsConcatenation ==
    [][ \A k \in DOMAIN sends :
          DoneStep(k) =>
              /\ messages' # <<>>
              /\ Last(messages').role = "assistant"
              /\ Last(messages').content = MessageText(sends[k].evlog) ]_vars

\* C2: the message finalized by a done event has as citation list the
\* citations of the source events delivered on its stream before that done,
\* in arrival order, none dropped, duplicated or reordered
C2_CitationsInArrivalOrder ==
    \A i \in DOMAIN messages :
        (messages[i].role = "assistant" /\ messages[i].src # 0) =>
            Sources(messages[i]) =
                SourceList(SubSeq(sends[messages[i].by].evlog, 1, messages[i].at))

\* C7: a stream appends at most one assistant message to the transcript,
\* whatever events are delivered on it (done twice, error after done)
C7_OneOutcomePerStream ==
    \A k \in DOMAIN sends : sends[k].appended <= 1


\* the step is a call of handleSendMessage(c) from the input field or directly
SendCall(c) == lastOp'.op \in { "send", "submit" } /\ lastOp'.c = c

\* the step is a call of handleSendMessage(c) from handleRetry
RetryCall(c) == lastOp'.op = "retry" /\ lastOp'.c = c

\* C8: an accepted send (content not blank, nothing in flight) appends
\* exactly one user message, with the trimmed content, at the end of the
\* transcript, in the step that issues its first network call: the call
\* (createConversation, the stream or sendMessage) is pending afterwards and
\* neither it nor any later call of the send has completed
C8_UserMessageBeforeNetwork ==
    [][ \A c \in Contents :
          ((SendCall(c) \/ RetryCall(c)) /\ Trim(c) # <<>> /\ ~isLoading /\ ~isStreaming) =>
              /\ messages' # <<>>
              /\ Front(messages') =
                     IF SendCall(c) THEN messages ELSE RemoveTrailingError(messages)
              /\ Last(messages').role = "user"
              /\ Last(messages').content = Trim(c)
              /\ Len(sends') = Len(sends) + 1
              /\ Last(sends').pc \in { "create", "stream", "regular" }
              /\ Last(sends').evlog = <<>> ]_vars

\* an accepted send of a content with whitespace at both ends
C8_Witness ==
    /\ lastOp = Op("send", << "_", "a", "_" >>, TRUE)
    /\ messages # <<>>
    /\ Last(messages).role = "user" /\ Last(messages).content = << "a" >>
    /\ sends # <<>> /\ Last(sends).pc = "create"

\* C9: a send with blank content, or issued while a send or a stream is in
\* flight, changes nothing: transcript, active conversation, in-flight flags,
\* streaming buffer and error banner stay, no network call is made
C9_RejectedSendChangesNothing ==
    [][ \A c \in Contents :
          (SendCall(c) /\ (Trim(c) = <<>> \/ isLoading \/ isStreaming)) =>
              UNCHANGED << messages, conversationId, currentConversation, isLoading,
                           isStreaming, streamingMessage, error, sends, loads >> ]_vars

\* a send with content was rejected while a stream is open whose promise
\* has resolved
C9_Witness ==
    /\ lastOp = Op("send", << "a" >>, FALSE)
    /\ isStreaming /\ ~isLoading /\ messages # <<>>


\* the step resolves the sendMessage call of invocation k
RegularStep(k) ==
    /\ k \in DOMAIN sends /\ k \in DOMAIN sends'
    /\ sends[k].pc = "regular" /\ sends'[k].pc = "finished"
    /\ sends'[k].appended = sends[k].appended + 1

\* the step is a newConversation() that found the stream of k in flight
NewConversationStep(k) ==
    /\ k \in DOMAIN sends /\ k \in DOMAIN sends'
    /\ "new" \notin sends[k].stale
    /\ "new" \in sends'[k].stale

\* C3: newConversation() while a stream is in flight leaves the transcript
\* empty, and no event of that stream delivered later changes the transcript
C3_DiscardedAfterNewConversation ==
    [][ \A k \in DOMAIN sends :
          /\ NewConversationStep(k) => messages' = <<>>
          /\ (EventStep(k) /\ "new" \in sends[k].stale) =>
                 messages' = messages ]_vars

\* C4: once a second send was issued while an earlier stream had no terminal
\* event yet, no event of the earlier stream changes the transcript
C4_StaleStreamAfterSecondSend ==
    [][ \A k \in DOMAIN sends :
          (EventStep(k) /\ "send" \in sends[k].stale) =>
              messages' = messages ]_vars

\* C5: once another conversation was selected while a stream or request was
\* in flight, no event or response of it appends a message to the transcript
\* of the selected conversation (here: once that transcript is loaded)
C5_StaleAfterSelectConversation ==
    [][ \A k \in DOMAIN sends :
          \/ ~(EventStep(k) \/ RegularStep(k))
          \/ "select" \notin sends[k].stale
          \/ currentConversation # conversationId
          \/ Len(messages') <= Len(messages) ]_vars

\* the invocations able to append to the transcript: delivering done on the
\* stream, or the response of sendMessage, would add a message
LiveSessions ==
    { k \in DOMAIN sends :
        \/ ENABLED (OnDone(k, Event("done", <<>>, Undefined)) /\ sends[k].pc = "stream"
                    /\ Len(messages') > Len(messages))
        \/ ENABLED (RegularResolve(k, <<"a">>, <<>>) /\ Len(messages') > Len(messages)) }

\* C6: at most one session is live, able to append to the transcript
C6_AtMostOneLiveSession == Cardinality(LiveSessions) <= 1

\* the step ends or completes the activation of a conversation: the active
\* conversation changes, newConversation(), or the transcript of a selected
\* conversation arrives
SwitchStep ==
    \/ conversationId' # conversationId
    \/ HandleNewConversation
    \/ \E l \in DOMAIN loads :
          /\ loads[l].pc = "pending" /\ loads'[l].pc # "pending"
          /\ loads[l].origin \in { "select", "mount" }

\* C10: while one conversation stays active the transcript only grows at its
\* end, except that retry may remove one trailing error-like assistant
\* message before it appends
C10_TranscriptAppendOnly ==
    [][ \/ SwitchStep
        \/ IsPrefix(messages, messages')
        \/ /\ lastOp'.op = "retry"
           /\ IsPrefix(RemoveTrailingError(messages), messages') ]_vars


\* the step resolves the createConversation call of invocation k
CreateStep(k) ==
    /\ k \in DOMAIN sends /\ k \in DOMAIN sends'
    /\ sends[k].pc = "create" /\ sends'[k].pc \in { "stream", "regular" }

\* the transcript ends with the user message of invocation k
EndsWithUserMessageOf(ms, k) ==
    /\ ms # <<>>
    /\ Last(ms).role = "user" /\ Last(ms).by = k

\* C11: a send accepted without an active conversation creates one and makes
\* it active with the user message of the send still in the transcript; when
\* its stream delivers done, the transcript ends with that user message
\* followed by the finalized assistant message, and is exactly these two
\* where the session started without a conversation
C11_FirstSendKeepsUserMessage ==
    [][ \A k \in DOMAIN sends :
          /\ CreateStep(k) =>
                 /\ conversationId' # Undefined
                 /\ EndsWithUserMessageOf(messages', k)
          /\ (DoneStep(k) /\ sends[k].conv = Undefined /\ sends[k].appended = 0) =>
                 /\ Len(messages') >= 2
                 /\ EndsWithUserMessageOf(Front(messages'), k)
                 /\ Last(messages').role = "assistant" /\ Last(messages').by = k
                 /\ k = 1 => Len(messages') = 2 ]_vars


\* the invocation ended in failure: a terminal event that was not done, or
\* a rejected network call
Failed(s) == s.pc = "finished" /\ s.terminal /\ s.appended = 0

\* the step ends invocation k in failure
FailStep(k) ==
    /\ k \in DOMAIN sends /\ k \in DOMAIN sends'
    /\ ~sends[k].terminal /\ Failed(sends'[k])

\* the assistant messages in ms that invocation k finalized from its stream
\* or from its response
AnswersOf(ms, k) ==
    { i \in DOMAIN ms : ms[i].by = k /\ ms[i].role = "assistant" /\ ~ms[i].synthetic }

\* C12: when a stream fails after it delivered message or source events,
\* the streaming buffer is empty afterwards, and the transcript never holds
\* an assistant message made of the partial answer of a failed stream
C12_PartialAnswerDiscarded ==
    [][ \A k \in DOMAIN sends :
          /\ (FailStep(k) /\ sends[k].pc = "stream" /\ sends[k].evlog # <<>>) =>
                 streamingMessage' = <<>>
          /\ (k \in DOMAIN sends' /\ Failed(sends'[k])) =>
                 AnswersOf(messages', k) = {} ]_vars

\* C13: when a send ends in failure (error event, failure reported to the
\* stream error callback, rejected network call) the error banner is set and
\* exactly one assistant message is appended at the end of the transcript,
\* which embeds the failure reason and which the retry predicate recognizes
C13_FailureAppendsErrorMessage ==
    [][ \A k \in DOMAIN sends :
          FailStep(k) =>
              /\ error' # Null
              /\ messages' # <<>>
              /\ Front(messages') = messages
              /\ Last(messages').role = "assistant"
              /\ IncludesError(Last(messages').content)
              /\ \E i \in DOMAIN Last(messages').content :
                     Last(messages').content[i] = error' ]_vars


\* the predicate of line 227: what retry takes for an error message
ErrorLike(m) == m.role = "assistant" /\ IncludesError(m.content)

\* the step is a click on the retry button that found a user message
RetryStep == lastOp'.op = "retry" /\ lastOp'.c # <<>>

\* the transcript the removal of retry left, read off the step
AfterRemoval == IF lastOp'.accepted THEN Front(messages') ELSE messages'

\* C14: retry() after a failed send removes the one trailing error-like
\* message the failure left, and puts exactly one resend of the content of
\* the most recent user message in flight
C14_RetryRemovesOneAndResends ==
    [][ (RetryStep /\ sends # <<>> /\ Failed(Last(sends))) =>
            /\ messages # <<>> /\ ErrorLike(Last(messages))
            /\ AfterRemoval = Front(messages)
            /\ Len(sends') = Len(sends) + 1
            /\ Last(sends').content = Last(UserMessages).content
            /\ Last(sends').pc \in { "create", "stream", "regular" } ]_vars

\* C15: the removal of retry() deletes the last message when it is the
\* assistant message of a delivery error, and otherwise (a user message, an
\* answer) leaves the transcript as it is
C15_RemovalOnlyOfDeliveryError ==
    [][ RetryStep =>
            AfterRemoval = IF messages # <<>> /\ Last(messages).synthetic
                           THEN Front(messages) ELSE messages ]_vars

\* every send so far failed or is in flight, and the transcript is made of
\* what these sends and their retries appended
OnlyFailingSends ==
    /\ \A k \in DOMAIN sends : sends[k].appended = 0
    /\ \A i \in DOMAIN messages : messages[i].by # 0

Idle == ~isLoading /\ ~isStreaming /\ streamingMessage = <<>>

\* C17: after a stream reached a terminal event (done, error, transport
\* failure) the engine is Idle again at some time: both in-flight flags
\* false and the streaming buffer empty, so that the next send is accepted
C17_TerminalReturnsToIdle ==
    \A k \in 1..MaxSends : (k \in DOMAIN sends /\ sends[k].terminal) ~> Idle


\* the step resolves the deleteConversation call of invocation d
DeleteStep(d) ==
    /\ d \in DOMAIN deletes /\ d \in DOMAIN deletes'
    /\ deletes[d].pc = "pending" /\ deletes'[d].pc = "finished"

\* C18: when the deletion of the active conversation succeeds the session
\* is left without a conversation (conversationId undefined, transcript
\* empty), and in no later state, whatever sends and loads were in flight,
\* is a deleted conversation the active one (by id or as the loaded
\* conversation)
C18_NoDanglingConversation ==
    [][ /\ \A d \in DOMAIN deletes :
              (DeleteStep(d) /\ deletes[d].id = conversationId) =>
                  conversationId' = Undefined /\ messages' = <<>>
        /\ conversationId' \notin deleted'
        /\ currentConversation' \notin deleted' ]_vars


\* the step is the failure of the load l of a selected conversation
LoadFailStep(l) ==
    /\ l \in DOMAIN loads /\ l \in DOMAIN loads'
    /\ loads[l].origin = "select"
    /\ loads[l].pc = "pending" /\ loads'[l].pc = "failed"

\* C19: when the load of a selected conversation fails the error banner is
\* set and the transcript is empty: the messages of the conversation that
\* was active before are not kept
C19_FailedLoadResetsTranscript ==
    [][ \A l \in DOMAIN loads :
          LoadFailStep(l) => error' # Null /\ messages' = <<>> ]_vars

\* the load of a selected conversation failed in a session whose sends were
\* all answered
C19_Witness ==
    /\ \E l \in DOMAIN loads : loads[l].origin = "select" /\ loads[l].pc = "failed"
    /\ error = LoadError(TRUE) /\ messages = <<>>
    /\ sends # <<>>
    /\ \A k \in DOMAIN sends : sends[k].pc = "finished" /\ sends[k].appended = 1


\* C20: a message that carries citations is an assistant message, and not
\* the synthetic error message; where a send of the session appended it, the
\* stream or request of that send had reached its terminal event
C20_CitationsOnlyOnAnswers ==
    \A i \in DOMAIN messages :
        Sources(messages[i]) # <<>> =>
            /\ messages[i].role = "assistant"
            /\ ~messages[i].synthetic
            /\ messages[i].by # 0 => sends[messages[i].by].terminal

\* the answer of a stream carries the citations delivered on it, after the
\* user message of its send
C20_Witness ==
    /\ Len(messages) = 2
    /\ messages[1].role = "user" /\ Sources(messages[1]) = <<>>
    /\ messages[2].role = "assistant" /\ messages[2].src # 0
    /\ Sources(messages[2]) = << "c1", "c2" >>

\* the stream of invocation k has delivered a done event
Finalized(k) == \E j \in DOMAIN sends[k].evlog : sends[k].evlog[j].type = "done"

\* C29: a message or source event delivered on a stream after its done
\* event changes neither the content nor the citation list of the assistant
\* message that the done event appended to the transcript
C29_FinalizedMessageImmutable ==
    [][ \A k \in DOMAIN sends :
          ( /\ EventStep(k)
            /\ Finalized(k)
            /\ Last(sends'[k].evlog).type \in { "message", "source" } ) =>
              \A i \in DOMAIN messages :
                  (messages[i].role = "assistant" /\ messages[i].by = k) =>
                      /\ i \in DOMAIN messages'
                      /\ messages'[i].content = messages[i].content
                      /\ SourcesIn(messages'[i], sends') = Sources(messages[i]) ]_vars

\* C30: when createConversation completes for a first send that a
\* newConversation() has abandoned, and no send was accepted since, nothing
\* is re-activated: conversationId stays undefined, the transcript stays
\* empty and no stream or request is started for the abandoned send
C30_AbandonedCreateStaysDead ==
    [][ \A k \in DOMAIN sends :
          ( /\ k \in DOMAIN sends'
            /\ sends[k].pc = "create" /\ sends'[k].pc # "create"
            /\ "abandoned" \in sends[k].stale
            /\ k = Len(sends) ) =>
              /\ conversationId' = Undefined
              /\ messages' = <<>>
              /\ ~isStreaming'
              /\ sends'[k].pc \notin { "stream", "regular" } ]_vars

\* ------------------------------------------------------- overlapping loads
\* the transcript the backend holds for conversation id, its messages
\* carrying their conversationId
TranscriptOf(id) ==
    << [ StoredUser EXCEPT !.conversationId = id ],
       [ StoredAssistant EXCEPT !.conversationId = id ] >>

NextSwitch ==
    \/ \E id \in ConvIds : SelectWithin(id, MaxSwitches)
    \/ HandleNewConversation
    \/ \E l \in DOMAIN loads : LoadResolve(l, TRUE, TranscriptOf(loads[l].id))
    \/ \E l \in DOMAIN loads, msg \in LoadErrors : LoadReject(l, msg)

\* a session opened without a conversation
InitSwitch == Init /\ conversationId = Undefined

SpecSwitch == InitSwitch /\ [][NextSwitch]_vars

\* C28: once the responses of all the loads started have been delivered,
\* in whatever order, the transcript holds the messages of the active
\* conversation, the one selected last, and not those of one selected before
C28_TranscriptOfActiveConversation ==
    ( /\ loads # <<>>
      /\ \A l \in DOMAIN loads : loads[l].pc = "finished"
      /\ conversationId = Last(loads).id ) =>
        messages = TranscriptOf(conversationId)

\* ------------------------------------------------------------ the clock
\* sends and their responses, with time passing between the steps
NextClock ==
    \/ NextSend
    \/ Tick

SpecClock == Init /\ [][NextClock]_vars

\* C22: no two messages of the transcript (user, finalized assistant or
\* synthetic error) have the same id, also when they are created at the
\* same clock reading
C22_MessageIdsUnique ==
    \A i, j \in DOMAIN messages :
        i # j => messages[i].id # messages[j].id

\* ------------------------------------------------------------- the title
\* a text of n characters, with whitespace in it
Text(n) ==
    [ i \in 1..n |-> CASE i % 3 = 1 -> "a" [] i % 3 = 2 -> "b" [] OTHER -> "_" ]

TitleContents == { Text(n) : n \in 0..MaxContentLen }

NextTitle ==
    \/ \E c \in TitleContents : HandleSubmit(c)
    \/ \E k \in DOMAIN sends : CreateResolve(k)
    \/ \E k \in DOMAIN sends, msg \in SendErrors : CreateReject(k, msg)

InitTitle == Init /\ conversationId = Undefined

SpecTitle == InitTitle /\ [][NextTitle]_vars

\* the send created a conversation: it was accepted without one
Created(s) == s.conv = Undefined

\* C23: the title given to the conversation created on a first send is the
\* submitted content when that has at most 50 characters, and otherwise its
\* first 47 characters followed by '...'; it never has more than 50
\* characters and differs from the content exactly when it was truncated
C23_TitleFromContent ==
    \A k \in DOMAIN sends :
        Created(sends[k]) =>
            LET c == sends[k].content
                t == sends[k].title
            IN  /\ Len(c) <= 50 => t = c
                /\ Len(c) > 50 => t = SubSeq(c, 1, 47) \o << ".", ".", "." >>
                /\ Len(t) <= 50
                /\ (t # c) <=> (Len(c) > 50)

\* a conversation was created for a content of more than 50 characters
C23_Witness ==
    \E k \in DOMAIN sends :
        /\ Created(sends[k])
        /\ sends[k].pc \in { "stream", "regular" }
        /\ Len(sends[k].content) > 50

\* ---------------------------------------------------------- the filter
\* conversations a list response is made of: titles and previews in both
\* cases, a title with whitespace, an absent preview, two updated at the
\* same time
Pool ==
    { Conv("A", << "A", "b" >>, << "a" >>, 2, 2),
      Conv("B", << "b" >>, <<>>, 1, 0),
      Conv("N1", << "a" >>, << "B", "a" >>, 1, 4),
      Conv("N2", << "_", "a" >>, << "b" >>, 3, 2) }

\* the list responses: up to MaxListLen conversations of the pool, in any
\* order
RECURSIVE ListsOf(_, _)
ListsOf(pool, n) ==
    IF n = 0 THEN { <<>> }
    ELSE LET shorter == ListsOf(pool, n - 1)
         IN  shorter \cup
             { Append(l, c) : l \in { x \in shorter : Len(x) = n - 1 }, c \in pool }

Distinct(l) == \A i, j \in DOMAIN l : i # j => l[i].id # l[j].id

Responses == { l \in ListsOf(Pool, MaxListLen) : Distinct(l) }

\* the texts typed in the search field
Queries == { <<>>, << "_" >>, << "a" >>, << "A" >>, << "B", "a" >>, << "_", "a" >> }

\* the values of filters.dateRange.  No code of the component calls
\* setFilters: the effect is checked for every value of the cell it reads.
DateRanges == { <<>>, << [ start |-> 1, end |-> 2 ] >>, << [ start |-> 2, end |-> 3 ] >> }

InitFilter ==
    /\ InitChat /\ streamingEnabled /\ letBlockScoped
    /\ conversations \in Responses
    /\ filters \in DateRanges
    /\ searchQuery = <<>>
    /\ filteredConversations = Filter(conversations, searchQuery, filters)
    /\ listLoading = FALSE
    /\ hasMore = FALSE
    /\ page = 1
    /\ listLoads = <<>>

NextFilter ==
    \/ \E q \in Queries : SetSearchQuery(q)
    \/ HandleRefresh
    \/ \E r \in Responses : ListResolve(r)
    \/ ListReject

SpecFilter == InitFilter /\ [][NextFilter]_vars

\* the same letter, whatever the case
SameLetter(x, y) == x = y \/ { x, y } \in { { "a", "A" }, { "b", "B" } }

\* text contains q, case-insensitively
ContainsFolded(text, q) ==
    \E i \in 0..(Len(text) - Len(q)) :
        \A j \in 1..Len(q) : SameLetter(text[i + j], q[j])

Blank(text) == \A i \in DOMAIN text : text[i] = "_"

\* c passes the search text and the date range
Passes(c) ==
    /\ \/ Blank(searchQuery)
       \/ ContainsFolded(c.title, searchQuery)
       \/ ContainsFolded(c.lastMessage, searchQuery)
    /\ filters # <<>> =>
           (filters[1].start <= c.updatedAt /\ c.updatedAt <= filters[1].end)

Count(l, c) == Cardinality({ i \in DOMAIN l : l[i] = c })

\* C24: the filtered list holds exactly the loaded conversations whose
\* title or preview contains the search text case-insensitively (all when
\* the text is blank) and whose last update lies in the inclusive date
\* range when one is set, and it is sorted by last update, latest first,
\* whatever the order of the loaded list
C24_FilteredListExactAndSorted ==
    /\ \A c \in Pool :
          Count(filteredConversations, c) =
              IF Passes(c) THEN Count(conversations, c) ELSE 0
    /\ \A i \in DOMAIN filteredConversations : filteredConversations[i] \in Pool
    /\ \A i, j \in DOMAIN filteredConversations :
          i < j => filteredConversations[i].updatedAt >= filteredConversations[j].updatedAt

\* a search text and a date range both drop conversations of a loaded list
\* that is not in order
C24_Witness ==
    /\ ~Blank(searchQuery)
    /\ filters # <<>>
    /\ filteredConversations # <<>>
    /\ \E c \in Pool : Count(conversations, c) = 1 /\ ~ContainsFolded(c.title, searchQuery)
                        /\ ~ContainsFolded(c.lastMessage, searchQuery)
    /\ \E c \in Pool : Count(conversations, c) = 1 /\ c.updatedAt > filters[1].end
    /\ \E i, j \in DOMAIN conversations :
          i < j /\ conversations[i].updatedAt < conversations[j].updatedAt

\* ------------------------------------------------------- conversationGroups
\* Date.prototype.toDateString: the local calendar day of a time in hours
DateOf(t) == t \div HoursPerDay

GroupNames == << "Today", "Yesterday", "This Week", "Older" >>

GroupOfTwoDaysBack(conv, t) ==
    IF DateOf(conv.updatedAt) = DateOf(t) THEN "Today"
    ELSE IF DateOf(conv.updatedAt) = DateOf(t - 2 * HoursPerDay) THEN "Yesterday"
    ELSE IF conv.updatedAt > t - DaysPerWeek * HoursPerDay THEN "This Week"
    ELSE "Older"

\* the branch of lines 185-193 conv takes when now is t
GroupOf(conv, t) ==
    IF DateOf(conv.updatedAt) = DateOf(t) THEN "Today"
    ELSE IF DateOf(conv.updatedAt) = DateOf(t - HoursPerDay) THEN "Yesterday"
    ELSE IF conv.updatedAt > t - DaysPerWeek * HoursPerDay THEN "This Week"
    ELSE "Older"

\* the groups object after the forEach: Object.entries lists it in the
\* order of its literal
Groups(list, t) ==
    [ n \in DOMAIN GroupNames |->
        [ name |-> GroupNames[n],
          convs |-> SelectSeq(list, LAMBDA c : GroupOf(c, t) = GroupNames[n]) ] ]

AllGroups(list, t) == Groups(list, t)

\* conversationGroups, computed when the clock reads t
ConversationGroups(list, t) ==
    SelectSeq(Groups(list, t), LAMBDA g : Len(g.convs) > 0)

\* conversations of a listing fetched at t: updated at t, 24, 25 and 47
\* hours, 3 days, a week and 40 days before
Ages == << 0, HoursPerDay, HoursPerDay + 1, 2 * HoursPerDay - 1, 3 * HoursPerDay,
           DaysPerWeek * HoursPerDay, 40 * HoursPerDay >>

AgedIds == << "A", "B", "N1", "N2", "N3", "N4", "N5" >>

Aged(n, t) == Conv(AgedIds[n], << "a" >>, IF n % 2 = 0 THEN << "b" >> ELSE <<>>, t - Ages[n], n)

GroupPool(t) == { Aged(n, t) : n \in DOMAIN Ages }

\* the sidebar shows a listing when the clock reads 0..MaxHour hours after a
\* midnight
InitGroup ==
    /\ InitCells /\ streamingEnabled /\ letBlockScoped /\ conversationId = Undefined
    /\ \E h \in 0..MaxHour :
          /\ now = 40 * HoursPerDay + h
          /\ conversations \in { l \in ListsOf(GroupPool(now), MaxGroupLen) : Distinct(l) }
    /\ filters = <<>>
    /\ searchQuery = <<>>
    /\ filteredConversations = Filter(conversations, searchQuery, filters)
    /\ listLoading = FALSE
    /\ hasMore = FALSE
    /\ page = 1
    /\ listLoads = <<>>

NextGroup ==
    \E q \in { <<>>, << "b" >> } : SetSearchQuery(q)

SpecGroup == InitGroup /\ [][NextGroup]_vars

\* the place of a name in the fixed order of the buckets
Rank(name) == CHOOSE n \in DOMAIN GroupNames : GroupNames[n] = name

\* the place of a conversation in a list without repetition
Pos(list, c) == CHOOSE i \in DOMAIN list : list[i] = c

\* C25: the groups partition the filtered list: every filtered conversation
\* is in exactly one bucket and the buckets hold nothing else; the buckets
\* are among Today, Yesterday, This Week, Older, in that order, none is
\* empty, and each keeps the order of the filtered list
C25_GroupsPartitionFilteredList ==
    LET G == ConversationGroups(filteredConversations, now) IN
    /\ \A i \in DOMAIN filteredConversations :
          Cardinality({ p \in (DOMAIN G) \X (DOMAIN filteredConversations) :
                          /\ p[2] \in DOMAIN G[p[1]].convs
                          /\ G[p[1]].convs[p[2]] = filteredConversations[i] }) = 1
    /\ \A g \in DOMAIN G :
          /\ G[g].convs # <<>>
          /\ \E n \in DOMAIN GroupNames : G[g].name = GroupNames[n]
          /\ \A j \in DOMAIN G[g].convs :
                \E i \in DOMAIN filteredConversations :
                    G[g].convs[j] = filteredConversations[i]
          /\ \A j, k \in DOMAIN G[g].convs :
                j < k => Pos(filteredConversations, G[g].convs[j])
                           < Pos(filteredConversations, G[g].convs[k])
    /\ \A g, h \in DOMAIN G : g < h => Rank(G[g].name) < Rank(G[h].name)

\* a search leaves three conversations, which fall into two buckets, none
\* of them Today
C25_Witness ==
    LET G == ConversationGroups(filteredConversations, now) IN
    /\ searchQuery # <<>>
    /\ Len(filteredConversations) = 3
    /\ Len(G) = 2
    /\ G[1].name # "Today"
    /\ \E g \in DOMAIN G : Len(G[g].convs) > 1

\* the list holds exactly the conversations updated at T0, T0 - 25 hours,
\* T0 - 3 days and T0 - 40 days, T0 being the clock reading
TheFour == { Aged(1, now), Aged(3, now), Aged(5, now), Aged(7, now) }

FourListed ==
    /\ Len(filteredConversations) = 4
    /\ \A c \in TheFour : \E i \in DOMAIN filteredConversations : filteredConversations[i] = c

OneInEachBucket ==
    ConversationGroups(filteredConversations, now) =
        << [ name |-> "Today",     convs |-> << Aged(1, now) >> ],
           [ name |-> "Yesterday", convs |-> << Aged(3, now) >> ],
           [ name |-> "This Week", convs |-> << Aged(5, now) >> ],
           [ name |-> "Older",     convs |-> << Aged(7, now) >> ] >>

\* C26 as stated: at every current time T0, whatever the time of day, the
\* conversations updated at T0, T0 - 25 hours, T0 - 3 days and T0 - 40 days
\* are grouped into Today, Yesterday, This Week and Older, one in each
C26_AnyTimeOfDay == FourListed => OneInEachBucket

\* C26 amended: the same, at every current time T0 that is at least one
\* hour after local midnight
C26_FromOneHourAfterMidnight ==
    (FourListed /\ now % HoursPerDay >= 1) => OneInEachBucket

\* the four are listed at a time of day of one hour or more after midnight
C26_Witness == FourListed /\ now % HoursPerDay >= 1

\* ------------------------------------------------------------- load more
\* the listing of a backend that holds n conversations, latest first
BackendListing(n) ==
    [ i \in 1..n |-> Conv(ToString(i), IF i % 2 = 0 THEN << "a" >> ELSE << "b" >>,
                          <<>>, n - i, 0) ]

\* getConversations(userId, limit): the call names no page, the listing
\* answers with its most recent page
GetConversations(listing, limit) ==
    SubSeq(listing, 1, IF Len(listing) < limit THEN Len(listing) ELSE limit)

\* the numbers of conversations of the backend: one page less one, one
\* page, one page and one
BackendSizes == { PageSize - 1, PageSize, PageSize + 1 }

NextPages ==
    \/ HandleLoadMore
    \/ HandleRefresh
    \/ \E n \in BackendSizes : ListResolve(GetConversations(BackendListing(n), PageSize))
    \/ ListReject
    \/ \E q \in { <<>>, << "a" >> } : SetSearchQuery(q)

InitPages == InitChat /\ conversationId = Undefined /\ InitSidebar

SpecPages == InitPages /\ [][NextPages]_vars

\* the step starts a load-more request
LoadMoreStep ==
    /\ listLoads = <<>>
    /\ listLoads' # <<>>
    /\ ~listLoads'[1].reset

\* C27: the accumulated list is a concatenation of distinct pages, so no
\* conversation id occurs twice in it, and a load-more request is only
\* started while the last page was full and no list request is in flight
C27_LoadMoreAccumulatesDistinctPages ==
    /\ [](\A i, j \in DOMAIN conversations :
             i # j => conversations[i].id # conversations[j].id)
    /\ [][ LoadMoreStep => (hasMore /\ ~listLoading) ]_vars

\* ------------------------------------------------- the list and the transcript
\* the chat interface with its sidebar, from the mount of both
NextPreview ==
    \/ NextStream
    \/ ListResolve(Listing)
    \/ ListReject

SpecPreview == InitStream /\ [][NextPreview]_vars

\* the step appends the assistant message of invocation k to the transcript
\* of the conversation that is active
AppendStep(k) ==
    /\ k \in DOMAIN sends /\ k \in DOMAIN sends'
    /\ Len(messages') = Len(messages) + 1
    /\ Last(messages').role = "assistant"
    /\ ~Last(messages').synthetic
    /\ Last(messages').by = k
    /\ conversationId' = sends[k].convId

\* C21: after every append of an exchange to the transcript of the active
\* conversation, the list of the sidebar has an entry for that conversation
\* whose message count is the length of the transcript and whose preview
\* is the content of its last message; stated for the appends made once
\* the list request has answered and the list shows the conversation
C21_ListEntryAgreesWithTranscript ==
    [][ \A k \in DOMAIN sends :
          (AppendStep(k) /\ listLoads = <<>> /\ conversationId \in ListedIds) =>
              \E i \in DOMAIN conversations' :
                  /\ conversations'[i].id = conversationId'
                  /\ conversations'[i].messageCount = Len(messages')
                  /\ conversations'[i].lastMessage = Last(messages').content ]_vars

=============================================================================
